---- MODULE Spec2Model ----
(***************************************************************************)
(* Shopee Extractor (src/src/App.tsx): the App component as a state        *)
(* machine.  The React state hooks are the variables, every event handler  *)
(* and every continuation of the asynchronous handler is one action.       *)
(***************************************************************************)
EXTENDS Integers, Sequences, FiniteSets, TLC

\* ------------------------------------------------------------------ bounds
MaxClicks == 3      \* submit attempts (clicks / Enter presses) in one session
MaxUrlLen == 2      \* characters typed into the URL field
MaxImages == 2      \* images in an extracted record
MaxTimers == 2      \* copied-flag timers pending at the same time

\* ------------------------------------------------------------------- state
VARIABLES
    ai,           \* TRUE iff GEMINI_API_KEY was set, so `ai` is a client (l.6-7)
    url,          \* useState('')       the text of the URL field
    loading,      \* useState(false)
    error,        \* useState('')
    product,      \* useState<ProductData | null>(null)
    activeImage,  \* useState(0)
    copied,       \* useState(false)
    inflight,     \* the generateContent calls awaited by handleExtract
    calls,        \* number of generateContent calls issued so far
    clicks,       \* number of submit attempts made by the user so far
    timers,       \* number of setTimeout callbacks of copyToClipboard pending
    clipboard,    \* the last text handed to navigator.clipboard.writeText
    crashed,      \* TRUE once rendering threw and React unmounted the tree
    lastEvent     \* history: the event handled last and the input it was given

vars == <<ai, url, loading, error, product, activeImage, copied,
          inflight, calls, clicks, timers, clipboard, crashed, lastEvent>>

\* The part of the state the user sees as the UI state.
uiState == <<loading, error, product, activeImage, copied>>

\* ----------------------------------------------------------------- strings
\* Characters of the URL field: one whitespace character, one other.
Chars == {" ", "s"}

RECURSIVE SeqsUpTo(_)
SeqsUpTo(n) ==
    IF n = 0 THEN {<<>>}
    ELSE LET shorter == SeqsUpTo(n - 1)
         IN  shorter \cup {Append(s, c) : s \in {t \in shorter : Len(t) = n - 1}, c \in Chars}

Urls == SeqsUpTo(MaxUrlLen)

IsSpace(c) == c = " "

RECURSIVE TrimStart(_)
TrimStart(s) ==
    IF s # <<>> /\ IsSpace(Head(s)) THEN TrimStart(Tail(s)) ELSE s

RECURSIVE TrimEnd(_)
TrimEnd(s) ==
    IF s # <<>> /\ IsSpace(s[Len(s)]) THEN TrimEnd(SubSeq(s, 1, Len(s) - 1)) ELSE s

\* A handler that tests the raw string instead of the trimmed one.
TrimNothing(s) == s

\* String.prototype.trim as used on l.35.
Trim(s) == TrimEnd(TrimStart(s))

\* The messages the handler can put into `error`.
ConfigMessage == "A chave da API do Gemini nao foi configurada. Por favor, adicione a variavel de ambiente GEMINI_API_KEY no Vercel."
EmptyMessage == "Falha ao extrair os dados."
GenericMessage == "Ocorreu um erro ao extrair os dados. Verifique a URL e tente novamente."
\* The message of the SyntaxError JSON.parse throws.
ParseMessage == "Unexpected token o in JSON at position 0"
TransportMessage == "503 Service Unavailable"

\* ---------------------------------------------------------------- products
ImagePool == [i \in 1..MaxImages |-> i]

Names == {"Blue Widget", "Mug"}
Prices == {"R$ 29,90"}
Descriptions == {"Widget azul de alta qualidade"}

\* product === null
NullProduct ==
    [present |-> FALSE, name |-> "", price |-> "", description |-> "",
     hasImages |-> FALSE, images |-> <<>>]

\* ------------------------------------------------- the external capability
\* response.text: undefined, or a string that is empty, not JSON, the JSON
\* literal null, or a JSON object with or without an images array of n items.
NoText ==
    [defined |-> FALSE, kind |-> "empty", name |-> "", price |-> "", description |-> "",
     hasImages |-> FALSE, n |-> 0]

Texts ==
    {NoText}
    \cup {[NoText EXCEPT !.defined = TRUE, !.kind = k] : k \in {"empty", "garbage", "null"}}
    \cup {[defined |-> TRUE, kind |-> "object", name |-> nm, price |-> pr, description |-> ds,
           hasImages |-> TRUE, n |-> k] :
            nm \in Names, pr \in Prices, ds \in Descriptions, k \in 0..MaxImages}
    \cup {[NoText EXCEPT !.defined = TRUE, !.kind = "object", !.name = nm] : nm \in Names}

\* The values generateContent rejects with: Error-like objects whose message
\* is a text, the empty string, or missing.
NoMessage == [hasMessage |-> FALSE, message |-> ""]

Rejections ==
    {[hasMessage |-> TRUE, message |-> TransportMessage],
     [hasMessage |-> TRUE, message |-> ""],
     NoMessage}

\* The record kept in lastEvent.
Event(op, text, err) ==
    [op |-> op, text |-> text, err |-> err, disabled |-> FALSE, idx |-> 0]

\* `if (response.text)`: undefined and '' are falsy.
Truthy(text) == text.defined /\ text.kind # "empty"

\* JSON.parse(response.text) as ProductData: throws a SyntaxError on text that
\* is not JSON (undefined, '' and other non-JSON text), and returns whatever
\* value the text denotes otherwise (the cast checks nothing).
JSONParse(text) ==
    CASE ~text.defined \/ text.kind \in {"empty", "garbage"} ->
            [threw |-> TRUE, err |-> [hasMessage |-> TRUE, message |-> ParseMessage],
             value |-> NullProduct]
      [] text.kind = "null" ->
            [threw |-> FALSE, err |-> NoMessage,
             value |-> NullProduct]
      [] OTHER ->
            [threw |-> FALSE, err |-> NoMessage,
             value |-> [present |-> TRUE, name |-> text.name, price |-> text.price,
                        description |-> text.description,
                        hasImages |-> text.hasImages,
                        images |-> IF text.hasImages THEN SubSeq(ImagePool, 1, text.n) ELSE <<>>]]

\* `err.message` alone, without the fallback.
MessageOnly(err, fallback) == err.message

\* err.message || fallback
MessageOr(err, fallback) ==
    IF err.hasMessage /\ err.message # "" THEN err.message ELSE fallback

\* --------------------------------------------------------------- rendering
\* The four statuses of the presentation store, as the view shows them.
Status ==
    IF loading THEN "Loading"
    ELSE IF error # "" THEN "Error"
    ELSE IF product.present THEN "Ready"
    ELSE "Idle"

\* Rendering a product reads product.images.length: a TypeError when the
\* record has no images array.
RenderThrows(p) == p.present /\ ~p.hasImages

\* A submit button that is never disabled.
SubmitNeverDisabled == FALSE

\* A submit button disabled on an empty field instead: disabled={!url}.
SubmitDisabledOnEmptyUrl == url = <<>>

\* <button type="submit" disabled={loading}>
SubmitDisabled == loading

\* ------------------------------------------------------------------- Init
Init ==
    /\ ai \in BOOLEAN
    /\ url = <<>>
    /\ loading = FALSE
    /\ error = ""
    /\ product = NullProduct
    /\ activeImage = 0
    /\ copied = FALSE
    /\ inflight = {}
    /\ calls = 0
    /\ clicks = 0
    /\ timers = 0
    /\ clipboard = <<>>
    /\ crashed = FALSE
    /\ lastEvent = Event("init", NoText, NoMessage)

\* ---------------------------------------------------------------- actions
\* onChange of the URL field.
SetUrl(u) ==
    /\ ~crashed
    /\ u # url
    /\ url' = u
    /\ lastEvent' = Event("setUrl", NoText, NoMessage)
    /\ UNCHANGED <<ai, loading, error, product, activeImage, copied,
                   inflight, calls, clicks, timers, clipboard, crashed>>

\* handleExtract without setError(''): the old message stays.
HandleExtractKeepsError ==
    IF Trim(url) = <<>>
    THEN UNCHANGED <<loading, error, product, inflight, calls>>
    ELSE IF ~ai
    THEN /\ error' = ConfigMessage
         /\ UNCHANGED <<loading, product, inflight, calls>>
    ELSE /\ loading' = TRUE
         /\ product' = NullProduct
         /\ calls' = calls + 1
         /\ inflight' = inflight \cup {[gen |-> calls + 1, url |-> url]}
         /\ UNCHANGED error

\* handleExtract without the `if (!ai)` check: the call is attempted.
HandleExtractNoKeyCheck ==
    IF Trim(url) = <<>>
    THEN UNCHANGED <<loading, error, product, inflight, calls>>
    ELSE /\ loading' = TRUE
         /\ error' = ""
         /\ product' = NullProduct
         /\ calls' = calls + 1
         /\ inflight' = inflight \cup {[gen |-> calls + 1, url |-> url]}

\* handleExtract with setProduct(null) ahead of the check of the URL.
HandleExtractClearsFirst ==
    IF Trim(url) = <<>>
    THEN /\ product' = NullProduct
         /\ UNCHANGED <<loading, error, inflight, calls>>
    ELSE IF ~ai
    THEN /\ error' = ConfigMessage
         /\ product' = NullProduct
         /\ UNCHANGED <<loading, inflight, calls>>
    ELSE /\ loading' = TRUE
         /\ error' = ""
         /\ product' = NullProduct
         /\ calls' = calls + 1
         /\ inflight' = inflight \cup {[gen |-> calls + 1, url |-> url]}

\* handleExtract up to its await (l.33-47).
HandleExtract ==
    IF Trim(url) = <<>>
    THEN UNCHANGED <<loading, error, product, inflight, calls>>
    ELSE IF ~ai
    THEN /\ error' = ConfigMessage
         /\ UNCHANGED <<loading, product, inflight, calls>>
    ELSE /\ loading' = TRUE
         /\ error' = ""
         /\ product' = NullProduct
         /\ calls' = calls + 1
         /\ inflight' = inflight \cup {[gen |-> calls + 1, url |-> url]}

\* The user activates the submit button (a click, or Enter in the field).  A
\* disabled button dispatches no submit event.
ClickSubmit ==
    /\ ~crashed
    /\ clicks < MaxClicks
    /\ clicks' = clicks + 1
    /\ lastEvent' = [Event("submit", NoText, NoMessage) EXCEPT !.disabled = SubmitDisabled]
    /\ IF SubmitDisabled
       THEN UNCHANGED <<loading, error, product, inflight, calls>>
       ELSE HandleExtract
    /\ UNCHANGED <<ai, url, activeImage, copied, timers, clipboard, crashed>>

\* A catch block that only logs: console.error(err) without setError.
CatchLogsOnly(err) ==
    /\ loading' = FALSE
    /\ UNCHANGED <<error, product, activeImage, crashed>>

\* The catch and finally blocks (l.90-95).
Catch(err) ==
    /\ error' = MessageOr(err, GenericMessage)
    /\ loading' = FALSE
    /\ UNCHANGED <<product, activeImage, crashed>>

\* The success branch without setActiveImage(0).
SuccessKeepsActiveImage(data) ==
    /\ product' = data
    /\ loading' = FALSE
    /\ crashed' = (crashed \/ RenderThrows(data))
    /\ UNCHANGED <<error, activeImage>>

\* The success branch (l.84-86) and the finally block (l.93-95); the view
\* is rendered with the new state afterwards.
Success(data) ==
    /\ product' = data
    /\ activeImage' = 0
    /\ loading' = FALSE
    /\ crashed' = (crashed \/ RenderThrows(data))
    /\ UNCHANGED error

\* The awaited call of c resolves with a response whose text is `text`
\* (l.83-95).
Resolve(c, text) ==
    /\ c \in inflight
    /\ inflight' = inflight \ {c}
    /\ lastEvent' = Event("resolve", text, NoMessage)
    /\ IF Truthy(text)
       THEN LET parsed == JSONParse(text)
            IN  IF parsed.threw THEN Catch(parsed.err) ELSE Success(parsed.value)
       ELSE Catch([hasMessage |-> TRUE, message |-> EmptyMessage])
    /\ UNCHANGED <<ai, url, copied, calls, clicks, timers, clipboard>>

\* A rejection handled by issuing the call again.
RejectRetries(c, err) ==
    /\ c \in inflight
    /\ calls < MaxClicks
    /\ calls' = calls + 1
    /\ inflight' = (inflight \ {c}) \cup {[gen |-> calls + 1, url |-> c.url]}
    /\ lastEvent' = Event("reject", NoText, err)
    /\ UNCHANGED <<ai, url, loading, error, product, activeImage, copied,
                   clicks, timers, clipboard, crashed>>

\* The awaited call of c rejects with err (l.90-95).
Reject(c, err) ==
    /\ c \in inflight
    /\ inflight' = inflight \ {c}
    /\ Catch(err)
    /\ lastEvent' = Event("reject", NoText, err)
    /\ UNCHANGED <<ai, url, copied, calls, clicks, timers, clipboard>>

\* A thumbnail strip that offers a button for every index asked for.
ThumbnailAlwaysRendered(idx) == TRUE

\* The thumbnail button of index idx exists: a product with more than one
\* image is shown and idx is an index of product.images (l.162, l.186-188).
ThumbnailRendered(idx) ==
    /\ product.present
    /\ Len(product.images) > 1
    /\ idx \in 0..(Len(product.images) - 1)

\* The user asks for image idx.  Only a rendered thumbnail button runs
\* setActiveImage(idx) (l.189-191); there is nothing to click otherwise.
SelectImage(idx) ==
    /\ ~crashed
    /\ lastEvent' = [Event("select", NoText, NoMessage) EXCEPT !.idx = idx]
    /\ IF ThumbnailRendered(idx)
       THEN activeImage' = idx
       ELSE UNCHANGED activeImage
    /\ UNCHANGED <<ai, url, loading, error, product, copied,
                   inflight, calls, clicks, timers, clipboard, crashed>>

\* A summary without the price line.
SummaryTextWithoutPrice(p) ==
    <<"Produto: ", p.name, "\n\nDescricao:\n", p.description>>

\* The summary text of l.100, as the pieces of the template literal.
SummaryText(p) ==
    <<"Produto: ", p.name, "\nPreco: ", p.price, "\n\nDescricao:\n", p.description>>

\* copyToClipboard without `if (!product) return;`.
CopyToClipboardNoGuard ==
    /\ ~crashed
    /\ timers < MaxTimers
    /\ lastEvent' = Event("copy", NoText, NoMessage)
    /\ clipboard' = SummaryText(product)
    /\ copied' = TRUE
    /\ timers' = timers + 1
    /\ UNCHANGED <<ai, url, loading, error, product, activeImage,
                   inflight, calls, clicks, crashed>>

\* The user asks for a copy of the summary: copyToClipboard (l.98-104).
\* Without a product the handler returns at once (l.99), and the copy
\* button is not rendered either (l.162, l.210-216).
CopyToClipboard ==
    /\ ~crashed
    /\ timers < MaxTimers
    /\ lastEvent' = Event("copy", NoText, NoMessage)
    /\ IF ~product.present
       THEN UNCHANGED <<clipboard, copied, timers>>
       ELSE /\ clipboard' = SummaryText(product)
            /\ copied' = TRUE
            /\ timers' = timers + 1
    /\ UNCHANGED <<ai, url, loading, error, product, activeImage,
                   inflight, calls, clicks, crashed>>

\* A callback of setTimeout(() => setCopied(false), 2000) runs.
TimerFire ==
    /\ timers > 0
    /\ timers' = timers - 1
    /\ copied' = FALSE
    /\ lastEvent' = Event("timer", NoText, NoMessage)
    /\ UNCHANGED <<ai, url, loading, error, product, activeImage,
                   inflight, calls, clicks, clipboard, crashed>>

Next ==
    \/ \E u \in Urls : SetUrl(u)
    \/ ClickSubmit
    \/ \E c \in inflight, t \in Texts : Resolve(c, t)
    \/ \E c \in inflight, e \in Rejections : Reject(c, e)
    \/ \E i \in -1..MaxImages : SelectImage(i)
    \/ CopyToClipboard
    \/ TimerFire

Spec == Init /\ [][Next]_vars

\* ================================================================= claims
\* A URL that is empty after trimming: nothing but whitespace.
IsBlank(s) == \A i \in 1..Len(s) : s[i] = " "

\* A step in which the user activated the submit button.
SubmitStep == clicks' = clicks + 1

\* C1: a response of a superseded call never overwrites state produced by a
\* more recent call.  No call is still pending once a later one was issued,
\* and a step that completes a call older than the latest one changes none
\* of product, error, loading and activeImage.
C1_StaleResponseNeverOverwrites ==
    /\ [](\A c \in inflight : c.gen = calls)
    /\ [][\A c \in inflight :
            (c \notin inflight' /\ c.gen < calls)
                => UNCHANGED <<product, error, loading, activeImage>>]_vars

\* C1 witness: a second call was issued after the first one, and completed.
C1_Witness ==
    /\ calls >= 2
    /\ inflight = {}
    /\ lastEvent.op \in {"resolve", "reject"}

\* C2: a submit with a non-empty URL while a call is in flight changes
\* nothing and issues no call; at most one call is in flight in every state.
C2_SubmitIgnoredWhileLoading ==
    /\ [](Cardinality(inflight) <= 1)
    /\ [][(SubmitStep /\ loading /\ ~IsBlank(url))
            => UNCHANGED <<uiState, inflight, calls, timers, clipboard>>]_vars

\* C2 witness: the user submitted a non-empty URL while the call was pending.
C2_Witness ==
    /\ lastEvent.op = "submit"
    /\ lastEvent.disabled
    /\ ~IsBlank(url)
    /\ loading
    /\ Cardinality(inflight) = 1

\* C3 as stated: every submit of a non-blank URL from Idle, Error or Ready
\* moves to Loading and clears the record and the error message.
C3_SubmitMovesToLoading ==
    [][(SubmitStep /\ ~loading /\ ~IsBlank(url))
        => (Status' = "Loading" /\ product' = NullProduct /\ error' = "")]_vars

\* C3 amended: with the API credential configured, every submit of a
\* non-blank URL from Idle, Error or Ready moves to Loading and clears the
\* record and the error message.
C3_SubmitMovesToLoadingWithKey ==
    [][(SubmitStep /\ ai /\ ~loading /\ ~IsBlank(url))
        => (Status' = "Loading" /\ product' = NullProduct /\ error' = "")]_vars

\* C3 witness: a submit accepted after an earlier call had completed.
C3_Witness ==
    /\ ai
    /\ calls >= 2
    /\ lastEvent.op = "submit"
    /\ ~lastEvent.disabled
    /\ Status = "Loading"
    /\ product = NullProduct
    /\ error = ""

\* C4: a submit with an empty or whitespace-only URL changes nothing of the
\* UI state and issues no call, from every state.
C4_BlankSubmitIsNoOp ==
    [][(SubmitStep /\ IsBlank(url))
        => UNCHANGED <<uiState, inflight, calls, timers, clipboard, crashed>>]_vars

\* C4 witness: a whitespace-only URL was submitted with the API credential
\* configured and a record on display, and the record is still on display.
C4_Witness ==
    /\ ai
    /\ lastEvent.op = "submit"
    /\ ~lastEvent.disabled
    /\ url # <<>>
    /\ IsBlank(url)
    /\ Status = "Ready"

\* C5: without the API credential a submit of a non-blank URL ends in Error
\* with the configuration message; no call is ever issued, the status is
\* never Loading and no record is ever present.
C5_MissingCredential ==
    /\ [](~ai => (calls = 0 /\ inflight = {} /\ Status # "Loading" /\ ~product.present))
    /\ [][(SubmitStep /\ ~ai /\ ~IsBlank(url))
            => (Status' = "Error" /\ error' = ConfigMessage)]_vars

\* C5 witness: a non-blank URL was submitted without the credential.
C5_Witness ==
    /\ ~ai
    /\ lastEvent.op = "submit"
    /\ ~IsBlank(url)
    /\ Status = "Error"
    /\ error = ConfigMessage
    /\ calls = 0

\* The response text is absent or the empty string.
IsAbsentOrEmpty(t) == ~t.defined \/ t.kind = "empty"

\* The response text is present and is not JSON.
IsNonJSON(t) == t.defined /\ t.kind = "garbage"

\* The response text is present and is JSON that is no product record: the
\* literal null, or an object without the images array.
IsNonRecordJSON(t) == t.defined /\ (t.kind = "null" \/ (t.kind = "object" /\ ~t.hasImages))

\* C6: a payload that is present but does not parse into a product record is
\* a failure: after the response the status is Error and no record is set.
C6_MalformedPayloadIsFailure ==
    (lastEvent.op = "resolve" /\ (IsNonJSON(lastEvent.text) \/ IsNonRecordJSON(lastEvent.text)))
        => (Status = "Error" /\ ~product.present /\ ~crashed)

\* C7: after a response whose text is not JSON the status is Error, the
\* message is the generic extraction-failure message and no record is set.
C7_NonJSONGivesGenericMessage ==
    (lastEvent.op = "resolve" /\ IsNonJSON(lastEvent.text))
        => (Status = "Error" /\ error = GenericMessage /\ ~product.present)

\* C8: after the call rejected, the status is Error, the message is the
\* failure's message when that is non-empty and the generic message when it
\* is empty or missing, and no record is set.
C8_RejectionGivesError ==
    lastEvent.op = "reject"
        => /\ Status = "Error"
           /\ ~product.present
           /\ error = IF lastEvent.err.hasMessage /\ lastEvent.err.message # ""
                      THEN lastEvent.err.message
                      ELSE GenericMessage

\* C8 witness: the call rejected with an empty message and the generic
\* message is shown.
C8_Witness ==
    /\ lastEvent.op = "reject"
    /\ lastEvent.err.hasMessage
    /\ lastEvent.err.message = ""
    /\ Status = "Error"
    /\ error = GenericMessage

\* C9: after a response whose text is absent or empty the status is Error
\* with a non-empty message and no record is set.
C9_EmptyResponseIsFailure ==
    (lastEvent.op = "resolve" /\ IsAbsentOrEmpty(lastEvent.text))
        => (Status = "Error" /\ error # "" /\ ~product.present)

\* C9 witness: the call resolved with an empty string.
C9_Witness ==
    /\ lastEvent.op = "resolve"
    /\ lastEvent.text.defined
    /\ lastEvent.text.kind = "empty"
    /\ Status = "Error"

\* C10: after a successful extraction activeImage is 0, and whenever a record
\* is present activeImage is an index into its images, or 0 when it has none.
C10_ActiveImageIsValid ==
    /\ (lastEvent.op = "resolve" /\ product.present) => activeImage = 0
    /\ product.present =>
            IF Len(product.images) = 0
            THEN activeImage = 0
            ELSE activeImage \in 0..(Len(product.images) - 1)

\* C10 witness: the last image of the record of a second extraction is
\* selected.
C10_Witness ==
    /\ calls >= 2
    /\ product.present
    /\ activeImage > 0
    /\ activeImage = Len(product.images) - 1
    /\ lastEvent.op = "select"

\* A step in which the user asked for an image.
SelectStep ==
    /\ lastEvent'.op = "select"
    /\ (lastEvent' # lastEvent \/ activeImage' # activeImage)

\* C11: selecting an image changes nothing when the index is out of bounds
\* or the status is not Ready, and changes nothing but activeImage otherwise.
C11_SelectImageFrame ==
    [][SelectStep =>
        /\ UNCHANGED <<loading, error, product, copied, inflight, calls, timers, clipboard>>
        /\ (\/ lastEvent'.idx < 0
            \/ lastEvent'.idx >= Len(product.images)
            \/ Status # "Ready") => UNCHANGED activeImage]_vars

\* C11 witness: with the second image of a record selected, an index past
\* the end of its images was asked for and the second image is still
\* selected.
C11_Witness ==
    /\ Status = "Ready"
    /\ lastEvent.op = "select"
    /\ lastEvent.idx >= Len(product.images)
    /\ Len(product.images) >= 2
    /\ activeImage = 1

\* C12: the reset of the copied flag is superseded by a later copy: while
\* the timer of the most recent copy is pending the flag stays true.  The
\* timers have one delay and fire in the order they were set, so the timer
\* of the most recent copy is pending exactly while any timer is.
C12_CopiedUntilLatestTimerFires == timers > 0 => copied

\* C13: after a copy in Ready the clipboard holds the fixed labels followed
\* by the name, the price and the description of the current record.
C13_SummaryHoldsNameAndPrice ==
    (lastEvent.op = "copy" /\ product.present)
        => /\ Status = "Ready"
           /\ Len(clipboard) = 6
           /\ clipboard[1] = "Produto: "
           /\ clipboard[2] = product.name
           /\ clipboard[3] = "\nPreco: "
           /\ clipboard[4] = product.price
           /\ clipboard[5] = "\n\nDescricao:\n"
           /\ clipboard[6] = product.description

\* C13 witness: the record of a second extraction was copied after the
\* record of the first one had been.
C13_Witness ==
    /\ lastEvent.op = "copy"
    /\ calls >= 2
    /\ timers >= 2
    /\ product.present
    /\ clipboard[2] = product.name
    /\ clipboard[4] = product.price

\* A submit the handler accepts: the button is enabled, the URL is not blank
\* and the API credential is configured.
AcceptedSubmitStep == SubmitStep /\ ~loading /\ ~IsBlank(url) /\ ai

\* C14: every accepted submit issues exactly one call and nothing else issues
\* one: no completion, failed or not, is followed by a call of its own.
C14_OneCallPerAcceptedSubmit ==
    /\ [][AcceptedSubmitStep =>
            /\ calls' = calls + 1
            /\ inflight \subseteq inflight'
            /\ Cardinality(inflight') = Cardinality(inflight) + 1]_vars
    /\ [][~AcceptedSubmitStep => (calls' = calls /\ inflight' \subseteq inflight)]_vars

\* C14 witness: the only call issued was rejected and no call is pending.
C14_Witness ==
    /\ lastEvent.op = "reject"
    /\ clicks = 1
    /\ calls = 1
    /\ inflight = {}

\* C15: the record changes only by being cleared on an accepted submit or by
\* being set on a successful response.
C15_RecordChangesOnlyOnSubmitOrSuccess ==
    [][product' # product =>
        \/ (AcceptedSubmitStep /\ product' = NullProduct)
        \/ (lastEvent'.op = "resolve" /\ ~product.present /\ product'.present)]_vars

\* C15 witness: a record is on display after it was copied, the copied flag
\* was reset and a blank URL was submitted.
C15_Witness ==
    /\ Status = "Ready"
    /\ lastEvent.op = "submit"
    /\ IsBlank(url)
    /\ clipboard # <<>>
    /\ clipboard[2] = product.name
    /\ timers = 0

\* C16: every accepted submit leads to Ready or Error: after the completion
\* of the call, whichever branch it took, loading is false and the status is
\* Ready or Error.
C16_CompletionGivesReadyOrError ==
    lastEvent.op \in {"resolve", "reject"}
        => (~loading /\ Status \in {"Ready", "Error"})

\* C17: a record and a non-empty error message are never present together.
C17_NoRecordWithError == ~(product.present /\ error # "")

\* C17 witness: a record is shown, without an error message, by a call
\* issued after an earlier one had completed.
C17_Witness ==
    /\ lastEvent.op = "resolve"
    /\ calls >= 2
    /\ product.present
    /\ error = ""

\* C18: while a call is in flight loading is true.
C18_InFlightImpliesLoading == inflight # {} => (loading /\ Status = "Loading")

\* C18 witness: a call is pending after an earlier call has completed.
C18_Witness ==
    /\ calls >= 2
    /\ inflight # {}
    /\ loading

\* A step in which the user asked for a copy of the summary.
CopyStep ==
    /\ lastEvent'.op = "copy"
    /\ (lastEvent' # lastEvent \/ timers' # timers)

\* C19: a copy asked for while no record is present writes nothing to the
\* clipboard, does not set the copied flag and starts no timer.
C19_CopyWithoutRecordIsNoOp ==
    [][(CopyStep /\ ~product.present)
        => UNCHANGED <<clipboard, copied, timers, loading, error, product,
                       activeImage, inflight, calls>>]_vars

\* C19 witness: a copy was asked for while loading, after the summary of an
\* earlier record had been copied.
C19_Witness ==
    /\ lastEvent.op = "copy"
    /\ Status = "Loading"
    /\ ~product.present
    /\ clipboard # <<>>
    /\ ~copied
    /\ timers = 0

====
